---- MODULE Spec2Model ----
(***************************************************************************)
(* Model of main.py of the daily digest: four fetchers, the HTML renderer  *)
(* and the main block that writes index.html.                              *)
(*                                                                         *)
(* A Python str is a sequence of tokens (each token a TLA+ string), so     *)
(* that substring tests, joins and f-strings are computed, not assumed.    *)
(* A raised exception is named by its class; "none" means no exception.    *)
(***************************************************************************)
EXTENDS Integers, Sequences, FiniteSets, TLC

VARIABLES
    pc,             \* position of the main block
    weather_report, \* main: result of fetch_weather
    news_report,    \* main: result of fetch_news
    stock_report,   \* main: result of fetch_stocks
    fun_fact,       \* main: result of fetch_fun_fact
    html_digest,    \* main: result of build_html_digest
    file,           \* content of index.html on disk
    buffer,         \* text written to the open file object, not flushed yet
    console,        \* lines printed by the main block
    calls,          \* history: the calls the main block has made, in order
    now,            \* last reading of the system clock (in ticks)
    symbols,        \* fetch_stocks: the symbols argument
    i,              \* fetch_stocks: number of the symbol being processed (1-based)
    reports,        \* fetch_stocks: the reports list
    spc,            \* fetch_stocks: position inside the function
    response,       \* fetch_stocks: outcome of the request in flight
    trace,          \* history: the pauses and requests of fetch_stocks, in order
    outcomes,       \* history: the outcome received for each request
    result,         \* fetch_stocks: the returned value
    docs            \* history: the calls of build_html_digest (arguments, clock, document)

vars == <<pc, weather_report, news_report, stock_report, fun_fact, html_digest,
          file, buffer, console, calls, now, symbols, i, reports, spc, response,
          trace, outcomes, result, docs>>

mainVars == <<pc, weather_report, news_report, stock_report, fun_fact, html_digest,
              file, buffer, console, calls>>

--------------------------------------------------------------------------
(* Bounds *)

MaxSymbols == 3

MaxClock == 3

MaxCalls == 2

(* Program constants *)

SleepSeconds == 13

TicksPerSecond == 2

--------------------------------------------------------------------------
(* Strings *)

\* w in r, for a word w that is one token
Contains(r, w) == \E k \in 1..Len(r) : r[k] = w

RECURSIVE Join(_)
\* "\n".join(lines)
Join(lines) ==
    IF Len(lines) = 0 THEN <<>>
    ELSE IF Len(lines) = 1 THEN lines[1]
    ELSE lines[1] \o <<"\n">> \o Join(Tail(lines))

RECURSIVE Remove(_, _)
\* s.replace(w, '')
Remove(s, w) ==
    IF Len(s) = 0 THEN <<>>
    ELSE IF Head(s) = w THEN Remove(Tail(s), w)
    ELSE <<Head(s)>> \o Remove(Tail(s), w)

\* The decimal literals float() accepts here, with their value in hundredths
Numerals == {"-1.5", "0.0000", "2.25", "150.1"}

Hundredths(t) ==
    CASE t = "-1.5" -> -150
      [] t = "0.0000" -> 0
      [] t = "2.25" -> 225
      [] t = "150.1" -> 15010

\* float(s): the value, or ValueError when s is not one decimal literal
float_(s) ==
    IF Len(s) = 1 /\ s[1] \in Numerals
    THEN [exc |-> "none", val |-> Hundredths(s[1])]
    ELSE [exc |-> "ValueError", val |-> 0]

\* f"{x:.2f}" for a value in hundredths
Fmt2(x) ==
    CASE x = -150 -> "-1.50"
      [] x = 0 -> "0.00"
      [] x = 225 -> "2.25"
      [] x = 15010 -> "150.10"

--------------------------------------------------------------------------
(* Exception classes *)

\* requests.exceptions.Timeout and its subclasses
IsTimeout(e) == e = "Timeout"

\* Mutant: the except clause names HTTPError instead of RequestException
IsRequestExceptionNarrow(e) == e = "HTTPError"

\* requests.exceptions.RequestException and its subclasses; requests >= 2.27
\* raises its own JSONDecodeError (a RequestException and a ValueError) from
\* response.json(), older versions a plain ValueError
IsRequestException(e) == e \in {"Timeout", "ConnectionError", "HTTPError", "JSONDecodeError"}

IsValueError(e) == e \in {"ValueError", "JSONDecodeError"}

IsKeyError(e) == e = "KeyError"

\* What requests.get(...) / raise_for_status() raise for an HTTP outcome
HttpExc(http) == IF http = "ok" THEN "none" ELSE http

HttpErrors == {"Timeout", "ConnectionError", "HTTPError"}

--------------------------------------------------------------------------
(* fetch_weather *)

\* A well-formed response of the weather provider
WeatherOk ==
    [to |-> "weather", http |-> "ok", body |-> "object", jsonexc |-> "none",
     temp |-> "number", weather |-> "list", rest |-> "present"]

\* The outcomes of the requests.get of fetch_weather.  temp: data['main']['temp']
\* (missing, a number, a string, null); weather: data['weather'] (missing, a
\* non-empty list of objects, [], an object, null); rest: data['name'] and
\* data['sys']['country']
WeatherResponses ==
    { WeatherOk }
    \cup { [WeatherOk EXCEPT !.http = h] : h \in HttpErrors }
    \cup { [WeatherOk EXCEPT !.body = "notjson", !.jsonexc = x] :
             x \in {"JSONDecodeError", "ValueError"} }
    \cup { [WeatherOk EXCEPT !.body = "list"] }
    \cup { [WeatherOk EXCEPT !.temp = t] : t \in {"missing", "string", "null"} }
    \cup { [WeatherOk EXCEPT !.weather = w] : w \in {"missing", "empty", "dict", "null"} }
    \cup { [WeatherOk EXCEPT !.rest = "missing"] }

Returns(v) == [exc |-> "none", val |-> v]

Raises(e) == [exc |-> e, val |-> <<>>]

WeatherLine == <<"San Jose", ", ", "US", ": ", "62", "F with ", "clear sky", ".">>

\* The body of the try statement of fetch_weather
WeatherTry(r) ==
    IF HttpExc(r.http) # "none" THEN Raises(HttpExc(r.http))
    ELSE IF r.body = "notjson" THEN Raises(r.jsonexc)
    ELSE IF r.body = "list" THEN Raises("TypeError")
    ELSE IF r.temp = "missing" THEN Raises("KeyError")
    ELSE IF r.weather \in {"missing", "dict"} THEN Raises("KeyError")
    ELSE IF r.weather = "empty" THEN Raises("IndexError")
    ELSE IF r.weather = "null" THEN Raises("TypeError")
    ELSE IF r.rest = "missing" THEN Raises("KeyError")
    ELSE IF r.temp = "string" THEN Raises("ValueError")
    ELSE IF r.temp = "null" THEN Raises("TypeError")
    ELSE Returns(WeatherLine)

WeatherUnavailable(location) ==
    <<"Weather data for ", location, " is temporarily unavailable.">>

WeatherInvalid == <<"Error: Invalid data format received from weather API.">>

\* fetch_weather(location, api_key) on a response r
fetch_weather(location, r) ==
    LET t == WeatherTry(r) IN
    IF t.exc = "none" THEN t
    ELSE IF IsRequestException(t.exc) THEN Returns(WeatherUnavailable(location))
    ELSE IF IsKeyError(t.exc) THEN Returns(WeatherInvalid)
    ELSE t

--------------------------------------------------------------------------
(* fetch_news *)

\* A well-formed response of the headlines provider
NewsOk ==
    [to |-> "news", http |-> "ok", body |-> "object", jsonexc |-> "none",
     articles |-> "list"]

\* The outcomes of the requests.get of fetch_news.  articles: data['articles']
\* (missing, a list of objects with titles, [], null, a list with an object
\* without title, a list of strings)
NewsResponses ==
    { NewsOk }
    \cup { [NewsOk EXCEPT !.http = h] : h \in HttpErrors }
    \cup { [NewsOk EXCEPT !.body = "notjson", !.jsonexc = x] :
             x \in {"JSONDecodeError", "ValueError"} }
    \cup { [NewsOk EXCEPT !.body = "list"] }
    \cup { [NewsOk EXCEPT !.articles = a] :
             a \in {"missing", "empty", "null", "notitle", "strings"} }

Headline(title) == <<"- ", title>>

\* The body of the try statement of fetch_news
NewsTry(r) ==
    IF HttpExc(r.http) # "none" THEN Raises(HttpExc(r.http))
    ELSE IF r.body = "notjson" THEN Raises(r.jsonexc)
    ELSE IF r.body = "list" THEN Raises("TypeError")
    ELSE IF r.articles \in {"missing", "notitle"} THEN Raises("KeyError")
    ELSE IF r.articles \in {"null", "strings"} THEN Raises("TypeError")
    ELSE IF r.articles = "empty" THEN Returns(Join(<<>>))
    ELSE Returns(Join(<<Headline("Title A"), Headline("Title B")>>))

NewsUnavailable == <<"Top news headlines are temporarily unavailable.">>

NewsInvalid == <<"Error: Invalid data format received from news API.">>

\* fetch_news(topic, api_key) on a response r
fetch_news(r) ==
    LET t == NewsTry(r) IN
    IF t.exc = "none" THEN t
    ELSE IF IsRequestException(t.exc) THEN Returns(NewsUnavailable)
    ELSE IF IsKeyError(t.exc) THEN Returns(NewsInvalid)
    ELSE t

--------------------------------------------------------------------------
(* fetch_fun_fact *)

FactOk == [to |-> "fun_fact", http |-> "ok", text |-> <<"42 is the answer.">>]

\* The outcomes of the requests.get of fetch_fun_fact
FactResponses == { FactOk } \cup { [FactOk EXCEPT !.http = h] : h \in HttpErrors }

FactUnavailable == <<"A fun fact is not available right now. Try again later!">>

\* fetch_fun_fact() on a response r
fetch_fun_fact(r) ==
    IF HttpExc(r.http) = "none" THEN Returns(r.text)
    ELSE IF IsRequestException(HttpExc(r.http)) THEN Returns(FactUnavailable)
    ELSE Raises(HttpExc(r.http))

--------------------------------------------------------------------------
(* fetch_stocks *)

\* A JSON value read as data[key]: missing key, null, or a string
Missing == [k |-> "missing", s |-> <<>>]

Null == [k |-> "null", s |-> <<>>]

Str(s) == [k |-> "str", s |-> s]

\* A well-formed quote response of Alpha Vantage with the given change percent
Quote(pct) ==
    [to |-> "stocks", http |-> "ok", detail |-> <<>>, body |-> "object",
     jsonexc |-> "none", note |-> "absent", quote |-> "object",
     price |-> Str(<<"150.1">>), pct |-> pct]

\* The outcomes of one requests.get in fetch_stocks
StockResponses ==
    { Quote(Str(<<p, "%">>)) : p \in {"-1.5", "0.0000", "2.25"} }
    \cup { [Quote(Null) EXCEPT !.http = "Timeout", !.detail = <<"Read timed out.">>] }
    \cup { [Quote(Null) EXCEPT !.http = "ConnectionError", !.detail = d] :
             d \in { <<"Connection refused">>, <<"Resource temporarily", "unavailable">> } }
    \cup { [Quote(Null) EXCEPT !.http = "HTTPError", !.detail = <<"503 Server Error">>] }
    \cup { [Quote(Null) EXCEPT !.body = "notjson", !.jsonexc = x,
                               !.detail = <<"Expecting value">>] :
             x \in {"JSONDecodeError", "ValueError"} }
    \cup { [Quote(Null) EXCEPT !.body = "list"] }
    \cup { [Quote(Null) EXCEPT !.note = "rate limit"] }
    \cup { [Quote(Null) EXCEPT !.quote = "absent"] }
    \cup { [Quote(Str(<<"2.25", "%">>)) EXCEPT !.price = Missing] }
    \cup { [Quote(Str(<<"2.25", "%">>)) EXCEPT !.price = Str(<<"N/A">>)] }
    \cup { [Quote(Str(<<"2.25", "%">>)) EXCEPT !.price = Null] }
    \cup { Quote(Str(<<"n/a">>)) }

RateLimitEntry(symbol) == <<symbol, ": API Rate Limit Hit - Waiting for next run.">>

InvalidEntry(symbol) == <<symbol, ": Error fetching data (likely invalid symbol).">>

TimeoutEntry(symbol) == <<symbol, ": Stock data currently", "unavailable", "(API timeout).">>

NetworkEntry(symbol, detail) == <<symbol, ": Network or Request failed:">> \o detail

ParseEntry(symbol) == <<symbol, ": Error parsing data (Check API key/symbol).">>

\* emoji = up if change_percent > 0 else down
Emoji(change_percent) == IF change_percent > 0 THEN "UP" ELSE "DOWN"

QuoteEntry(symbol, price, change_percent) ==
    <<symbol, ": $", Fmt2(price), "(", Fmt2(change_percent), "%)", Emoji(change_percent)>>

\* What an expression of the try body yields
Raise(e) == [exc |-> e, flow |-> "next", append |-> FALSE, entry |-> <<>>]

Record(entry, flow) == [exc |-> "none", flow |-> flow, append |-> TRUE, entry |-> entry]

\* float(quote['05. price'])
ParsePrice(r) ==
    CASE r.price.k = "missing" -> [exc |-> "KeyError", val |-> 0]
      [] r.price.k = "null" -> [exc |-> "TypeError", val |-> 0]
      [] OTHER -> float_(r.price.s)

\* float(quote['10. change percent'].replace('%', ''))
ParseChange(r) ==
    CASE r.pct.k = "missing" -> [exc |-> "KeyError", val |-> 0]
      [] r.pct.k = "null" -> [exc |-> "AttributeError", val |-> 0]
      [] OTHER -> float_(Remove(r.pct.s, "%"))

\* The body of the try statement for one symbol
StockTry(symbol, r) ==
    IF HttpExc(r.http) # "none" THEN Raise(HttpExc(r.http))
    ELSE IF r.body = "notjson" THEN Raise(r.jsonexc)
    ELSE IF r.body = "list" THEN Raise("AttributeError")
    ELSE IF r.note = "rate limit" THEN Record(RateLimitEntry(symbol), "break")
    ELSE IF r.quote # "object" THEN Record(InvalidEntry(symbol), "continue")
    ELSE IF ParsePrice(r).exc # "none" THEN Raise(ParsePrice(r).exc)
    ELSE IF ParseChange(r).exc # "none" THEN Raise(ParseChange(r).exc)
    ELSE Record(QuoteEntry(symbol, ParsePrice(r).val, ParseChange(r).val), "next")

\* The try statement with its except clauses, in their order
StockHandle(symbol, r) ==
    LET t == StockTry(symbol, r) IN
    IF t.exc = "none" THEN t
    ELSE IF IsTimeout(t.exc) THEN Record(TimeoutEntry(symbol), "next")
    ELSE IF IsRequestException(t.exc) THEN Record(NetworkEntry(symbol, r.detail), "next")
    ELSE IF IsKeyError(t.exc) \/ IsValueError(t.exc) THEN Record(ParseEntry(symbol), "next")
    ELSE t

GenericMessage ==
    <<"Market data is temporarily", "unavailable",
      "due to an external API issue. Please check back later.">>

\* Mutant: any() in place of all()
CollapsesAny(reps, syms) ==
    /\ \E k \in 1..Len(reps) : Contains(reps[k], "unavailable")
    /\ Len(reps) = Len(syms)

\* all("unavailable" in r for r in reports) and len(reports) == len(symbols)
Collapses(reps, syms) ==
    /\ \A k \in 1..Len(reps) : Contains(reps[k], "unavailable")
    /\ Len(reps) = Len(syms)

\* The value fetch_stocks returns once the loop is over
StockOutput(reps, syms) ==
    IF Collapses(reps, syms) THEN GenericMessage ELSE Join(reps)

Event(ev, n) == [ev |-> ev, idx |-> n, secs |-> IF ev = "request" THEN 0 ELSE SleepSeconds]

\* fetch_stocks is entered
StocksCall ==
    /\ pc = "stocks" /\ spc = "idle"
    /\ spc' = "loop"
    /\ reports' = <<>>
    /\ i' = 0
    /\ calls' = Append(calls, "fetch_stocks")
    /\ UNCHANGED <<symbols, response, trace, outcomes, result, now, docs,
                   weather_report, news_report, stock_report, fun_fact, html_digest,
                   file, buffer, console, pc>>

\* Mutant: the pause starts one request late (if i > 1)
StocksLoopLate ==
    /\ spc = "loop"
    /\ IF i < Len(symbols)
       THEN /\ i' = i + 1
            /\ spc' = IF i > 1 THEN "sleep" ELSE "get"
       ELSE /\ i' = i
            /\ spc' = "join"
    /\ UNCHANGED <<symbols, reports, response, trace, outcomes, result, now, docs>>
    /\ UNCHANGED mainVars

\* for i, symbol in enumerate(symbols): if i > 0: ...
StocksLoop ==
    /\ spc = "loop"
    /\ IF i < Len(symbols)
       THEN /\ i' = i + 1
            /\ spc' = IF i > 0 THEN "sleep" ELSE "get"
       ELSE /\ i' = i
            /\ spc' = "join"
    /\ UNCHANGED <<symbols, reports, response, trace, outcomes, result, now, docs>>
    /\ UNCHANGED mainVars

\* time.sleep(13) is entered: the thread blocks
StocksSleep ==
    /\ spc = "sleep"
    /\ trace' = Append(trace, Event("sleep_begin", i))
    /\ spc' = "sleeping"
    /\ UNCHANGED <<symbols, i, reports, response, outcomes, result, now, docs>>
    /\ UNCHANGED mainVars

\* time.sleep(13) returns
StocksWake ==
    /\ spc = "sleeping"
    /\ trace' = Append(trace, Event("sleep_end", i))
    /\ spc' = "get"
    /\ UNCHANGED <<symbols, i, reports, response, outcomes, result, now, docs>>
    /\ UNCHANGED mainVars

\* requests.get(api_url, timeout=15) is issued and its outcome arrives
StocksGet ==
    /\ spc = "get"
    /\ \E r \in StockResponses :
         /\ response' = r
         /\ outcomes' = Append(outcomes, r)
    /\ trace' = Append(trace, Event("request", i))
    /\ spc' = "handle"
    /\ UNCHANGED <<symbols, i, reports, result, now, docs>>
    /\ UNCHANGED mainVars

\* Mutant: the rate-limit branch continues instead of breaking
NextPosNoBreak(h) == IF h.exc # "none" THEN "raised" ELSE "loop"

\* Where fetch_stocks goes after the try statement: the exception leaves, break
\* ends the loop, anything else goes on with the next symbol
NextPos(h) ==
    IF h.exc # "none" THEN "raised"
    ELSE IF h.flow = "break" THEN "join" ELSE "loop"

\* The rest of the try statement: one entry is recorded, or an exception leaves
StocksHandle ==
    /\ spc = "handle"
    /\ LET h == StockHandle(symbols[i], response) IN
         /\ reports' = IF h.append THEN Append(reports, h.entry) ELSE reports
         /\ spc' = NextPos(h)
    /\ UNCHANGED <<symbols, i, response, trace, outcomes, result, now, docs>>
    /\ UNCHANGED mainVars

\* stock_output = "\n".join(reports); the collapse test; return
StocksReturn ==
    /\ spc = "join"
    /\ result' = StockOutput(reports, symbols)
    /\ spc' = "returned"
    /\ UNCHANGED <<symbols, i, reports, response, trace, outcomes, now, docs>>
    /\ UNCHANGED mainVars

Tickers == <<"AAPL", "GOOGL", "MSFT", "BAD", "IBM">>

\* No request has been made yet
NoResponse == [to |-> "none", http |-> "ok"]

\* fetch_stocks called on a list of up to MaxSymbols symbols
InitStocks ==
    /\ pc = "stocks"
    /\ weather_report = <<>> /\ news_report = <<>> /\ stock_report = <<>>
    /\ fun_fact = <<>> /\ html_digest = <<>>
    /\ file = <<"OLD">> /\ buffer = <<>> /\ console = <<>> /\ calls = <<>>
    /\ now = 0
    /\ symbols \in { SubSeq(Tickers, 1, n) : n \in 0..MaxSymbols }
    /\ i = 0 /\ reports = <<>> /\ spc = "idle" /\ response = NoResponse
    /\ trace = <<>> /\ outcomes = <<>> /\ result = <<>>
    /\ docs = <<>>

NextStocks ==
    \/ StocksCall
    \/ StocksLoop
    \/ StocksSleep
    \/ StocksWake
    \/ StocksGet
    \/ StocksHandle
    \/ StocksReturn

SpecStocks == InitStocks /\ [][NextStocks]_vars

--------------------------------------------------------------------------
(* build_html_digest *)

\* Mutant: the format keeps the fraction of the second (%f)
strftimeFraction(clock) == ToString(clock)

\* datetime.now().strftime('%Y-%m-%d %H:%M:%S'): the clock cut to whole seconds
strftime(clock) == ToString(clock \div TicksPerSecond)

WeatherHeading == "<h2>Local Weather</h2>"

NewsHeading == "<h2>Top Tech News</h2>"

StockHeading == "<h2>Stock Market Snapshot</h2>"

FactHeading == "<h2>Daily Fun Fact</h2>"

\* build_html_digest(weather_report, news_report, stock_report, fun_fact), called
\* when the system clock reads clock
build_html_digest(w, n, s, f, clock) ==
    <<"<h1>Automated Daily Digest</h1>", "Generated on ", strftime(clock)>>
    \o <<WeatherHeading>> \o w
    \o <<NewsHeading>> \o n
    \o <<StockHeading>> \o s
    \o <<FactHeading, "Did you know? ">> \o f
    \o <<"Automated by a Python Script via GitHub Actions">>

Call(w, n, s, f, clock) ==
    [w |-> w, n |-> n, s |-> s, f |-> f, t |-> clock,
     doc |-> build_html_digest(w, n, s, f, clock)]

\* Report strings the renderer is called with
WeatherStrings == {WeatherLine, WeatherInvalid}

NewsStrings == {NewsUnavailable, Join(<<Headline("Title A"), Headline("Title B")>>)}

StockStrings == {GenericMessage, Join(<<RateLimitEntry("AAPL")>>)}

FactStrings == {FactUnavailable, FactOk.text}

\* One call of build_html_digest, at a clock reading not before the last one
RenderCall ==
    /\ pc = "render"
    /\ Len(docs) < MaxCalls
    /\ \E w \in WeatherStrings, n \in NewsStrings, s \in StockStrings, f \in FactStrings,
          t \in now..MaxClock :
         /\ now' = t
         /\ docs' = Append(docs, Call(w, n, s, f, t))
    /\ UNCHANGED <<symbols, i, reports, spc, response, trace, outcomes, result>>
    /\ UNCHANGED mainVars

\* build_html_digest called repeatedly on report strings
InitRender ==
    /\ pc = "render"
    /\ weather_report = <<>> /\ news_report = <<>> /\ stock_report = <<>>
    /\ fun_fact = <<>> /\ html_digest = <<>>
    /\ file = <<"OLD">> /\ buffer = <<>> /\ console = <<>> /\ calls = <<>>
    /\ now = 0
    /\ symbols = <<>>
    /\ i = 0 /\ reports = <<>> /\ spc = "idle" /\ response = NoResponse
    /\ trace = <<>> /\ outcomes = <<>> /\ result = <<>>
    /\ docs = <<>>

NextRender == RenderCall

SpecRender == InitRender /\ [][NextRender]_vars

--------------------------------------------------------------------------
(* The main block *)

Location == "San Jose,US"

\* weather_report = fetch_weather("San Jose,US", weather_api_key)
FetchWeather ==
    /\ pc = "weather"
    /\ \E r \in WeatherResponses :
         /\ response' = r
         /\ IF fetch_weather(Location, r).exc = "none"
            THEN /\ weather_report' = fetch_weather(Location, r).val
                 /\ pc' = "news"
            ELSE /\ weather_report' = weather_report
                 /\ pc' = "raised"
    /\ calls' = Append(calls, "fetch_weather")
    /\ UNCHANGED <<news_report, stock_report, fun_fact, html_digest, file, buffer,
                   console, now, symbols, i, reports, spc, trace, outcomes, result, docs>>

\* news_report = fetch_news("technology", news_api_key)
FetchNews ==
    /\ pc = "news"
    /\ \E r \in NewsResponses :
         /\ response' = r
         /\ IF fetch_news(r).exc = "none"
            THEN /\ news_report' = fetch_news(r).val
                 /\ pc' = "stocks"
            ELSE /\ news_report' = news_report
                 /\ pc' = "raised"
    /\ calls' = Append(calls, "fetch_news")
    /\ UNCHANGED <<weather_report, stock_report, fun_fact, html_digest, file, buffer,
                   console, now, symbols, i, reports, spc, trace, outcomes, result, docs>>

\* stock_report = fetch_stocks(["AAPL", "GOOGL"], stock_api_key): the call returns
\* and its frame is discarded
MainStocksReturn ==
    /\ pc = "stocks" /\ spc = "returned"
    /\ stock_report' = result
    /\ pc' = "fun_fact"
    /\ spc' = "idle" /\ i' = 0 /\ reports' = <<>> /\ response' = NoResponse
    /\ outcomes' = <<>> /\ result' = <<>>
    /\ UNCHANGED <<weather_report, news_report, fun_fact, html_digest, file, buffer,
                   console, calls, now, symbols, trace, docs>>

\* An exception that left fetch_stocks leaves the main block too
MainStocksRaise ==
    /\ pc = "stocks" /\ spc = "raised"
    /\ pc' = "raised"
    /\ UNCHANGED <<weather_report, news_report, stock_report, fun_fact, html_digest,
                   file, buffer, console, calls, now, symbols, i, reports, spc,
                   response, trace, outcomes, result, docs>>

\* fun_fact = fetch_fun_fact()
FetchFunFact ==
    /\ pc = "fun_fact"
    /\ \E r \in FactResponses :
         /\ response' = r
         /\ IF fetch_fun_fact(r).exc = "none"
            THEN /\ fun_fact' = fetch_fun_fact(r).val
                 /\ pc' = "build"
            ELSE /\ fun_fact' = fun_fact
                 /\ pc' = "raised"
    /\ calls' = Append(calls, "fetch_fun_fact")
    /\ UNCHANGED <<weather_report, news_report, stock_report, html_digest, file, buffer,
                   console, now, symbols, i, reports, spc, trace, outcomes, result, docs>>

\* html_digest = build_html_digest(weather_report, news_report, stock_report, fun_fact)
BuildHtml ==
    /\ pc = "build"
    /\ \E t \in now..MaxClock :
         /\ now' = t
         /\ html_digest' = build_html_digest(weather_report, news_report, stock_report,
                                             fun_fact, t)
         /\ docs' = Append(docs, Call(weather_report, news_report, stock_report,
                                      fun_fact, t))
    /\ calls' = Append(calls, "build_html_digest")
    /\ pc' = "open"
    /\ UNCHANGED <<weather_report, news_report, stock_report, fun_fact, file, buffer,
                   console, symbols, i, reports, spc, response, trace, outcomes, result>>

\* The line the main block prints for the outcome of the write step
Report(written) ==
    IF written THEN "SUCCESS: index.html has been generated."
    ELSE "ERROR: Could not write index.html file"

\* Mutant: the IOError is swallowed and the run goes on
AfterIOSwallow(ok, next) == next

\* Where the main block goes after a step of the write, which may raise IOError
AfterIO(ok, next) == IF ok THEN next ELSE "except"

\* open("index.html", "w"): the file is truncated, or IOError is raised
OpenFile ==
    /\ pc = "open"
    /\ \E ok \in BOOLEAN :
         /\ file' = IF ok THEN <<>> ELSE file
         /\ pc' = AfterIO(ok, "write")
    /\ buffer' = <<>>
    /\ calls' = Append(calls, "open")
    /\ UNCHANGED <<weather_report, news_report, stock_report, fun_fact, html_digest,
                   console, now, symbols, i, reports, spc, response, trace, outcomes,
                   result, docs>>

\* f.write(html_digest): the text is buffered, or IOError is raised
WriteFile ==
    /\ pc = "write"
    /\ \E ok \in BOOLEAN :
         /\ buffer' = IF ok THEN html_digest ELSE <<>>
         /\ pc' = AfterIO(ok, "close")
    /\ UNCHANGED <<weather_report, news_report, stock_report, fun_fact, html_digest,
                   file, console, calls, now, symbols, i, reports, spc, response, trace,
                   outcomes, result, docs>>

\* Leaving the with block closes the file: the buffer reaches the disk, or only
\* a part of it does and IOError is raised
CloseFile ==
    /\ pc = "close"
    /\ \E ok \in BOOLEAN :
         /\ IF ok THEN file' = buffer
            ELSE \E k \in {n \in 0..1 : n <= Len(buffer)} : file' = SubSeq(buffer, 1, k)
         /\ pc' = AfterIO(ok, "print")
    /\ buffer' = <<>>
    /\ UNCHANGED <<weather_report, news_report, stock_report, fun_fact, html_digest,
                   console, calls, now, symbols, i, reports, spc, response, trace,
                   outcomes, result, docs>>

\* print("SUCCESS: index.html has been generated.")
PrintSuccess ==
    /\ pc = "print"
    /\ console' = Append(console, Report(TRUE))
    /\ pc' = "done"
    /\ UNCHANGED <<weather_report, news_report, stock_report, fun_fact, html_digest,
                   file, buffer, calls, now, symbols, i, reports, spc, response, trace,
                   outcomes, result, docs>>

\* except IOError as e: print(f"ERROR: Could not write index.html file: {e}")
PrintError ==
    /\ pc = "except"
    /\ console' = Append(console, Report(FALSE))
    /\ pc' = "done"
    /\ UNCHANGED <<weather_report, news_report, stock_report, fun_fact, html_digest,
                   file, buffer, calls, now, symbols, i, reports, spc, response, trace,
                   outcomes, result, docs>>

\* One run of the script
Init ==
    /\ pc = "weather"
    /\ weather_report = <<>> /\ news_report = <<>> /\ stock_report = <<>>
    /\ fun_fact = <<>> /\ html_digest = <<>>
    /\ file \in {<<>>, <<"OLD">>} /\ buffer = <<>> /\ console = <<>> /\ calls = <<>>
    /\ now = 0
    /\ symbols = <<"AAPL", "GOOGL">>
    /\ i = 0 /\ reports = <<>> /\ spc = "idle" /\ response = NoResponse
    /\ trace = <<>> /\ outcomes = <<>> /\ result = <<>>
    /\ docs = <<>>

Next ==
    \/ FetchWeather
    \/ FetchNews
    \/ StocksCall
    \/ StocksLoop
    \/ StocksSleep
    \/ StocksWake
    \/ StocksGet
    \/ StocksHandle
    \/ StocksReturn
    \/ MainStocksReturn
    \/ MainStocksRaise
    \/ FetchFunFact
    \/ BuildHtml
    \/ OpenFile
    \/ WriteFile
    \/ CloseFile
    \/ PrintSuccess
    \/ PrintError

Spec == Init /\ [][Next]_vars

--------------------------------------------------------------------------
(* Properties of fetch_stocks, checked under SpecStocks *)

Requests == { p \in 1..Len(trace) : trace[p].ev = "request" }

\* The response signals the rate-limit condition
Signals(r) == r.http = "ok" /\ r.body = "object" /\ r.note = "rate limit"

\* The k-th outcome has been handled
Handled(k) == k < Len(outcomes) \/ (k = Len(outcomes) /\ spc # "handle")

\* C1: the pause is executed exactly once before each of the 2nd and later
\* requests and never before the 1st, whatever the outcomes, and request n+1 is
\* issued only after the pause that follows request n has completed.
PauseDiscipline ==
    /\ \A p \in Requests :
         IF trace[p].idx = 1
         THEN p = 1
         ELSE /\ p >= 4
              /\ trace[p - 1] = Event("sleep_end", trace[p].idx)
              /\ trace[p - 2] = Event("sleep_begin", trace[p].idx)
              /\ trace[p - 3] = Event("request", trace[p].idx - 1)
    /\ \A p \in 1..Len(trace) :
         /\ trace[p].ev = "sleep_begin" => p > 1 /\ trace[p - 1].ev = "request"
         /\ trace[p].ev = "sleep_end" => p > 1 /\ trace[p - 1].ev = "sleep_begin"
    /\ Cardinality(Requests) = Len(outcomes)
    /\ spc = "sleeping" => trace[Len(trace)] = Event("sleep_begin", i)

\* C1 witness: three requests were issued, the first of them timed out and the
\* second had no quote.
PauseWitness ==
    /\ Cardinality(Requests) = 3
    /\ outcomes[1].http = "Timeout"
    /\ outcomes[2].quote = "absent"
    /\ spc = "returned"

\* C2: once the response for the k-th symbol signals the rate limit, no request
\* and no pause is issued for a later symbol, exactly k entries are recorded,
\* the last of them the only rate-limit entry, and they are what is returned.
RateLimitStops ==
    \A k \in 1..Len(outcomes) :
        (Signals(outcomes[k]) /\ Handled(k)) =>
            /\ k = Len(outcomes)
            /\ \A p \in 1..Len(trace) : trace[p].idx <= k
            /\ spc \in {"join", "returned"}
            /\ Len(reports) = k
            /\ reports[k] = RateLimitEntry(symbols[k])
            /\ \A j \in 1..(k - 1) : reports[j] # RateLimitEntry(symbols[j])
            /\ spc = "returned" => result = Join(reports)

\* C2 witness: the second of three symbols hit the rate limit and the function
\* has returned.
RateLimitWitness ==
    /\ Len(symbols) = 3
    /\ Len(outcomes) = 2
    /\ Signals(outcomes[2])
    /\ spc = "returned"

\* The outcome is one whose recorded entry says the data is unavailable: a
\* timeout, or a network failure whose error detail says so
Unavailable(r) ==
    \/ r.http = "Timeout"
    \/ r.http \in {"ConnectionError", "HTTPError"} /\ Contains(r.detail, "unavailable")

\* C3: fetch_stocks returns the generic message exactly when every recorded
\* entry indicates unavailability and there are as many entries as symbols (so
\* when every symbol timed out); otherwise it returns the recorded entries
\* joined by newlines, in request order.
CollapseRule ==
    spc = "returned" =>
        /\ Len(reports) = Len(outcomes)
        /\ result = GenericMessage <=>
              /\ \A k \in 1..Len(reports) : Unavailable(outcomes[k])
              /\ Len(reports) = Len(symbols)
        /\ result # GenericMessage =>
              /\ result = Join(reports)
              /\ \A k \in 1..Len(reports) : reports[k][1] = symbols[k]
        /\ ((\A k \in 1..Len(outcomes) : outcomes[k].http = "Timeout")
              /\ Len(outcomes) = Len(symbols)) => result = GenericMessage

\* C3 witness: both of two symbols timed out and the generic message was returned.
CollapseWitness ==
    /\ spc = "returned"
    /\ Len(symbols) = 2
    /\ Len(outcomes) = 2
    /\ \A k \in 1..2 : outcomes[k].http = "Timeout"
    /\ result = GenericMessage

\* C4: a per-symbol failure never stops the loop: as long as no response signals
\* the rate limit, no exception leaves, and when the loop is over every symbol
\* has been requested once, in order, with one entry recorded for each.
FailureNeverStopsLoop ==
    (\A k \in 1..Len(outcomes) : ~Signals(outcomes[k])) =>
        /\ spc # "raised"
        /\ spc \in {"join", "returned"} =>
              /\ Len(reports) = Len(symbols)
              /\ Cardinality(Requests) = Len(symbols)
              /\ \A k \in 1..Len(reports) : reports[k][1] = symbols[k]

\* The k-th outcome is a quote that parsed
Parsed(k) == Handled(k) /\ StockTry(symbols[k], outcomes[k]).flow = "next"
                        /\ StockTry(symbols[k], outcomes[k]).exc = "none"

\* C9: the line of a parsed quote ends with the up indicator when the percent
\* change is >= 0 (zero included) and with the down indicator when it is < 0.
IndicatorNonNegative ==
    \A k \in 1..Len(outcomes) :
        Parsed(k) =>
            /\ Len(reports) >= k
            /\ reports[k][Len(reports[k])] =
                 IF ParseChange(outcomes[k]).val >= 0 THEN "UP" ELSE "DOWN"

--------------------------------------------------------------------------
(* Properties of the run, checked under Spec *)

\* C5: when the HTTP call of a fetcher raises a timeout or a connection error,
\* or the status is not 2xx, the fetcher returns its fallback and no exception
\* leaves it: the fixed string of fetch_weather, fetch_news and fetch_fun_fact,
\* the per-symbol timeout or network-failure entry of fetch_stocks, and the
\* generic message when every symbol timed out.
FallbackOnHttpError ==
    /\ (response.to = "weather" /\ response.http \in HttpErrors) =>
           pc = "news" /\ weather_report = WeatherUnavailable(Location)
    /\ (response.to = "news" /\ response.http \in HttpErrors) =>
           pc = "stocks" /\ news_report = NewsUnavailable
    /\ (response.to = "fun_fact" /\ response.http \in HttpErrors) =>
           pc \notin {"fun_fact", "raised"} /\ fun_fact = FactUnavailable
    /\ \A k \in 1..Len(outcomes) :
           (outcomes[k].http \in HttpErrors /\ Handled(k)) =>
               /\ ~(k = Len(outcomes) /\ spc = "raised")
               /\ Len(reports) >= k
               /\ reports[k] = IF outcomes[k].http = "Timeout"
                               THEN TimeoutEntry(symbols[k])
                               ELSE NetworkEntry(symbols[k], outcomes[k].detail)
    /\ (spc = "returned" /\ \A k \in 1..Len(outcomes) : outcomes[k].http = "Timeout") =>
           result = GenericMessage

\* C5 witness: the HTTP call of every fetcher failed and the run wrote the four
\* fallbacks.
FallbackWitness ==
    /\ pc = "done"
    /\ weather_report = WeatherUnavailable(Location)
    /\ news_report = NewsUnavailable
    /\ stock_report = GenericMessage
    /\ fun_fact = FactUnavailable
    /\ response.http = "ConnectionError"

\* C6: when the HTTP call of fetch_weather or fetch_news succeeds but the body is
\* missing or malforms an expected field, the fetcher returns a fallback string
\* and no exception leaves it.
MalformedAbsorbed ==
    /\ (response.to = "weather" /\ response.http = "ok" /\ response # WeatherOk) =>
           pc = "news" /\ weather_report \in {WeatherInvalid, WeatherUnavailable(Location)}
    /\ (response.to = "news" /\ response.http = "ok" /\ response # NewsOk) =>
           pc = "stocks" /\ news_report \in {NewsInvalid, NewsUnavailable}

AllCalls ==
    <<"fetch_weather", "fetch_news", "fetch_stocks", "fetch_fun_fact",
      "build_html_digest", "open">>

\* C7: whatever fails in a fetcher, the run reaches the write step: the four
\* fetchers are called once each in the order weather, news, stocks, fun fact,
\* then the renderer once on their results, then one write is attempted, and
\* after a successful write the file holds the renderer's output.
RunReachesWrite ==
    /\ pc # "raised"
    /\ Len(calls) <= Len(AllCalls)
    /\ calls = SubSeq(AllCalls, 1, Len(calls))
    /\ pc = "done" =>
          /\ calls = AllCalls
          /\ Len(docs) = 1
          /\ docs[1].doc = html_digest
          /\ <<docs[1].w, docs[1].n, docs[1].s, docs[1].f>> =
                <<weather_report, news_report, stock_report, fun_fact>>
          /\ console = <<Report(TRUE)>> => file = html_digest

--------------------------------------------------------------------------
(* Properties of build_html_digest, checked under SpecRender *)

SameArguments(a, b) == <<a.w, a.n, a.s, a.f>> = <<b.w, b.n, b.s, b.f>>

\* The place of a heading in a document
Index(doc, tok) == CHOOSE k \in 1..Len(doc) : doc[k] = tok /\ \A j \in 1..(k - 1) : doc[j] # tok

\* The sections of the document are those of the call, in the fixed order
SectionsInOrder(c) ==
    LET d == c.doc
        iw == Index(d, WeatherHeading)
        inews == Index(d, NewsHeading)
        istock == Index(d, StockHeading)
        ifact == Index(d, FactHeading)
    IN  /\ iw < inews /\ inews < istock /\ istock < ifact
        /\ SubSeq(d, iw + 1, inews - 1) = c.w
        /\ SubSeq(d, inews + 1, istock - 1) = c.n
        /\ SubSeq(d, istock + 1, ifact - 1) = c.s
        /\ SubSeq(d, ifact + 2, ifact + 1 + Len(c.f)) = c.f

\* C10 as stated: two calls with the same four strings return the same document.
RenderPure ==
    \A a \in 1..Len(docs), b \in 1..Len(docs) :
        SameArguments(docs[a], docs[b]) => docs[a].doc = docs[b].doc

\* C10 as amended: two calls with the same four strings made within the same
\* second of the system clock return the same document, and every document has
\* its four sections in the order weather, news, stocks, fun fact.
RenderSameSecond ==
    /\ \A a \in 1..Len(docs), b \in 1..Len(docs) :
         (SameArguments(docs[a], docs[b])
            /\ docs[a].t \div TicksPerSecond = docs[b].t \div TicksPerSecond)
         => docs[a].doc = docs[b].doc
    /\ \A a \in 1..Len(docs) : SectionsInOrder(docs[a])

\* C10 witness: two calls with the same strings at two different readings of the
\* clock within one second.
RenderWitness ==
    /\ Len(docs) >= 2
    /\ SameArguments(docs[1], docs[2])
    /\ docs[1].t # docs[2].t
    /\ docs[1].t \div TicksPerSecond = docs[2].t \div TicksPerSecond
    /\ docs[1].doc = docs[2].doc

====
